---- MODULE Spec2Model ----
(***************************************************************************)
(* Model of src/tsp.py: the random-restart TSP driver `main`, the tour     *)
(* sampler/evaluator `tsp` and the convergence analyzer                    *)
(* `analyze_convergence`.                                                  *)
(*                                                                         *)
(* Three specifications share the module:                                  *)
(*   Spec         the driver loop of main (lines 188-284)                  *)
(*   SpecAnalyze  analyze_convergence applied to bounded histories         *)
(*   SpecTsp      tsp applied to bounded city tables, every shuffle        *)
(***************************************************************************)
EXTENDS Integers, Sequences, FiniteSets, TLC

VARIABLES
    \* ---- main (src/tsp.py:188-284) ----
    cdf,                          \* the city table (DataFrame rows)
    count,                        \* parameter count
    auto_stop,                    \* parameter auto_stop
    improvement_threshold,        \* parameter improvement_threshold, as <<num, den>>
    pc,                           \* "loop" | "summary" | "done" | "raised" | "idle"
    i,                            \* loop variable of `for i in range(count)`
    distance_list,                \* main's distance_list
    city_list_list,               \* main's city_list_list
    best_distance,                \* main's best_distance (Infinity = float('inf'))
    iterations_since_improvement, \* main's iterations_since_improvement
    improvement,                  \* main's local `improvement` (last analyzer outcome)
    message,                      \* which convergence message was printed
    exc,                          \* the exception that left main, if any
    results,                      \* the dict main returns
    \* ---- analyze_convergence called on its own ----
    an_list, an_window, an_out, an_pc,
    \* ---- tsp called on its own ----
    tsp_df, tsp_out, tsp_pc

mainVars == <<cdf, count, auto_stop, improvement_threshold, pc, i, distance_list,
              city_list_list, best_distance, iterations_since_improvement,
              improvement, message, exc, results>>
anVars   == <<an_list, an_window, an_out, an_pc>>
tspVars  == <<tsp_df, tsp_out, tsp_pc>>
vars     == <<mainVars, anVars, tspVars>>

-----------------------------------------------------------------------------
(* Python values *)

\* Python's None
None == [none |-> TRUE]

\* a call that returned v / a call that raised exception type e at source line l
Returned(v) == [raised |-> FALSE, value |-> v, type |-> "", line |-> 0]
Raised(e, l) == [raised |-> TRUE, value |-> None, type |-> e, line |-> l]

Abs(n) == IF n < 0 THEN -n ELSE n
Sign(n) == IF n < 0 THEN -1 ELSE IF n = 0 THEN 0 ELSE 1

-----------------------------------------------------------------------------
(* IEEE-754 binary64 values, as far as line 184 and line 274 need them.    *)
(* A nonzero double is s * N * 2^e with N a 53-bit integer, 2^52 <= N <    *)
(* 2^53, kept as six limbs <<h, l1, .., l5>>: h the top 8 bits (128..255), *)
(* each l a 9-bit limb. Every intermediate stays below 2^31.               *)

FZero == [s |-> 0, e |-> 0, m |-> <<0, 0, 0, 0, 0, 0>>]

\* add one unit in the last place to a limb sequence, carrying leftwards
RECURSIVE IncAt(_, _)
IncAt(m, j) ==
    IF j = 1 THEN [m EXCEPT ![1] = m[1] + 1]
    ELSE IF m[j] < 511 THEN [m EXCEPT ![j] = m[j] + 1]
    ELSE IncAt([m EXCEPT ![j] = 0], j - 1)

\* the double s * (N [+ 1 if up]) * 2^e, renormalised when the mantissa overflows
FRound(s, e, m, up) ==
    LET m1 == IF up THEN IncAt(m, 6) ELSE m
    IN  IF m1[1] = 256
        THEN [s |-> s, e |-> e + 1, m |-> <<128, 0, 0, 0, 0, 0>>]
        ELSE [s |-> s, e |-> e, m |-> m1]

\* Python's a / b for integer-valued operands of magnitude below 2^21, b # 0:
\* the correctly rounded (nearest, ties to even) quotient
FDiv(a, b) ==
    IF a = 0 THEN FZero
    ELSE
    LET A    == Abs(a)
        B    == Abs(b)
        up   == CHOOSE k \in 0..30 : A * 2^k >= B /\ (k = 0 \/ A * 2^(k - 1) < B)
        A1   == A * 2^up
        down == CHOOSE k \in 0..30 : B * 2^k <= A1 /\ B * 2^(k + 1) > A1
        B1   == B * 2^down
        h    == (A1 * 128) \div B1
        r0   == (A1 * 128) % B1
        l1   == (r0 * 512) \div B1
        r1   == (r0 * 512) % B1
        l2   == (r1 * 512) \div B1
        r2   == (r1 * 512) % B1
        l3   == (r2 * 512) \div B1
        r3   == (r2 * 512) % B1
        l4   == (r3 * 512) \div B1
        r4   == (r3 * 512) % B1
        l5   == (r4 * 512) \div B1
        r5   == (r4 * 512) % B1
        roundUp == (2 * r5 > B1) \/ (2 * r5 = B1 /\ l5 % 2 = 1)
    IN  FRound(Sign(a) * Sign(b), down - up - 52, <<h, l1, l2, l3, l4, l5>>, roundUp)

\* Python's x * c for a double x and an int c with 0 < c < 512: the exact
\* product N * c rounded to 53 bits (nearest, ties to even)
FMulInt(x, c) ==
    IF x.s = 0 THEN FZero
    ELSE
    LET m  == x.m
        t5 == m[6] * c
        t4 == m[5] * c + (t5 \div 512)
        t3 == m[4] * c + (t4 \div 512)
        t2 == m[3] * c + (t3 \div 512)
        t1 == m[2] * c + (t2 \div 512)
        th == m[1] * c + (t1 \div 512)
        o5 == t5 % 512
        o4 == t4 % 512
        o3 == t3 % 512
        o2 == t2 % 512
        o1 == t1 % 512
        k  == CHOOSE n \in 0..9 : (th \div 2^n) \in 128..255
        p  == 2^k
        q  == 2^(9 - k)
        n5 == (o4 % p) * q + (o5 \div p)
        rem == o5 % p
        roundUp == k > 0 /\ ((2 * rem > p) \/ (2 * rem = p /\ n5 % 2 = 1))
    IN  FRound(x.s, x.e + k,
               << th \div p,
                  (th % p) * q + (o1 \div p),
                  (o1 % p) * q + (o2 \div p),
                  (o2 % p) * q + (o3 \div p),
                  (o3 % p) * q + (o4 \div p),
                  n5 >>,
               roundUp)

\* Python's abs(x)
FAbs(x) == [x EXCEPT !.s = Abs(x.s)]

\* lexicographic order of two limb sequences
LimbsLess(m, n) ==
    \E j \in 1..6 : m[j] < n[j] /\ \A k \in 1..(j - 1) : m[k] = n[k]

MagLess(x, y) == x.e < y.e \/ (x.e = y.e /\ LimbsLess(x.m, y.m))

\* Python's x < y on doubles
FLess(x, y) ==
    IF x.s # y.s THEN x.s < y.s
    ELSE IF x.s = 0 THEN FALSE
    ELSE IF x.s = 1 THEN MagLess(x, y)
    ELSE MagLess(y, x)

-----------------------------------------------------------------------------
(* Python list helpers *)

\* min over the first k elements of s, scanned left to right
RECURSIVE MinUpTo(_, _)
MinUpTo(s, k) ==
    IF k = 1 THEN s[1]
    ELSE LET before == MinUpTo(s, k - 1) IN IF s[k] < before THEN s[k] ELSE before

\* min(s) of a non-empty list
ListMin(s) == MinUpTo(s, Len(s))

\* max over the first k elements of s, scanned left to right
RECURSIVE MaxUpTo(_, _)
MaxUpTo(s, k) ==
    IF k = 1 THEN s[1]
    ELSE LET before == MaxUpTo(s, k - 1) IN IF s[k] > before THEN s[k] ELSE before

\* max(s) of a non-empty list
ListMax(s) == MaxUpTo(s, Len(s))

\* the sum of the first k elements of s, added left to right from 0
RECURSIVE SumUpTo(_, _)
SumUpTo(s, k) == IF k = 0 THEN 0 ELSE SumUpTo(s, k - 1) + s[k]

\* sum(s)
ListSum(s) == SumUpTo(s, Len(s))

\* s[-w:] for 1 <= w <= len(s)
LastSlice(s, w) == SubSeq(s, Len(s) - w + 1, Len(s))

\* s[:-w] for 1 <= w <= len(s)
FrontSlice(s, w) == SubSeq(s, 1, Len(s) - w)

-----------------------------------------------------------------------------
(* analyze_convergence, src/tsp.py:173-185 *)

\* the variant that compares against a fixed-size baseline (the window just
\* before the trailing one) instead of all earlier history
analyze_convergence_fixed_baseline(dl, window) ==
    IF Len(dl) < window THEN Returned(None)
    ELSE
    LET recent   == LastSlice(dl, window)
        front    == FrontSlice(dl, window)
        previous == IF Len(front) > window THEN LastSlice(front, window) ELSE front
    IN  IF previous = <<>> THEN Raised("ValueError", 182)
        ELSE
        LET recent_best   == ListMin(recent)
            previous_best == ListMin(previous)
        IN  IF previous_best = 0 THEN Raised("ZeroDivisionError", 184)
            ELSE Returned(FMulInt(FDiv(previous_best - recent_best, previous_best), 100))

analyze_convergence(dl, window) ==
    IF Len(dl) < window THEN Returned(None)                        \* 178-179
    ELSE
    LET recent   == LastSlice(dl, window)                          \* 181
        previous == FrontSlice(dl, window)                         \* 182
    IN  IF previous = <<>> THEN Raised("ValueError", 182)          \* min([])
        ELSE
        LET recent_best   == ListMin(recent)
            previous_best == ListMin(previous)
        IN  IF previous_best = 0 THEN Raised("ZeroDivisionError", 184)
            ELSE Returned(FMulInt(FDiv(previous_best - recent_best, previous_best), 100))

-----------------------------------------------------------------------------
(* tsp, src/tsp.py:116-170 *)

\* cities_df["city"].to_list(): a fresh list of the city column
CityColumn(df) == [r \in 1..Len(df) |-> df[r].city]

\* cities_df[cities_df["city"] == name][...].values[0]: the first row named so
RowOf(df, name) ==
    df[CHOOSE r \in 1..Len(df) :
          df[r].city = name /\ \A q \in 1..(r - 1) : df[q].city # name]

\* geopy.distance.distance(p, q).miles, an external library: stood for by an
\* integer metric on the coordinate pairs (symmetric, 0 exactly on equal points)
geodesic_miles(p, q) == Abs(p[1] - q[1]) + Abs(p[2] - q[2])

Coordinates(df, name) == <<RowOf(df, name).latitude, RowOf(df, name).longitude>>

\* the random source of one shuffle of n items: for each position k = n..2 the
\* value of randbelow(k), here 1-based, js[k] \in 1..k
ChoiceVectors(n) == {js \in [2..n -> 1..n] : \A k \in 2..n : js[k] <= k}

\* a shuffle that overwrites x[k] with x[j] instead of exchanging the two
RECURSIVE ShuffleOverwriteFrom(_, _, _)
ShuffleOverwriteFrom(x, js, k) ==
    IF k < 2 THEN x
    ELSE ShuffleOverwriteFrom([x EXCEPT ![k] = x[js[k]]], js, k - 1)

shuffle_overwriting(x, js) == ShuffleOverwriteFrom(x, js, Len(x))

\* random.shuffle(x): Fisher-Yates from the last position down, exchanging
\* x[k] with x[js[k]]
RECURSIVE ShuffleFrom(_, _, _)
ShuffleFrom(x, js, k) ==
    IF k < 2 THEN x
    ELSE ShuffleFrom([x EXCEPT ![k] = x[js[k]], ![js[k]] = x[k]], js, k - 1)

shuffle(x, js) == ShuffleFrom(x, js, Len(x))

\* the loop of lines 133-167 without its else branch: no edge back to the start
leg_distances_open(df, city_list) ==
    [k \in 1..(Len(city_list) - 1) |->
        geodesic_miles(Coordinates(df, city_list[k]), Coordinates(df, city_list[k + 1]))]

\* lines 131-167: distance_list of one tour, one entry per position
leg_distances(df, city_list) ==
    [k \in 1..Len(city_list) |->
        IF k # Len(city_list)
        THEN geodesic_miles(Coordinates(df, city_list[k]), Coordinates(df, city_list[k + 1]))
        ELSE geodesic_miles(Coordinates(df, city_list[k]), Coordinates(df, city_list[1]))]

\* lines 169: total_distance = sum(distance_list)
total_distance(df, city_list) == ListSum(leg_distances(df, city_list))

\* tsp(cities_df) with the random source js: (total_distance, city_list)
tsp(df, js) ==
    LET city_list == shuffle(CityColumn(df), js)
    IN  <<total_distance(df, city_list), city_list>>

-----------------------------------------------------------------------------
(* Constants of main *)

\* i >= 10, line 239
WarmUp == 10
\* window=5, line 240
ConvergenceWindow == 5
\* iterations_since_improvement >= 20, line 245
PlateauLimit == 20

-----------------------------------------------------------------------------
(* Bounds and inputs *)

MaxCount      == 23   \* largest count of a run with auto_stop
MaxDraws      == 2    \* outcomes of the random source the driver runs explore
MaxCities     == 4    \* largest city table given to tsp on its own
MaxLen        == 5    \* longest enumerated history given to analyze_convergence
MaxVal        == 2    \* largest distance in such a history
MaxWindow     == 2    \* largest enumerated window

\* the first names of the default city list, lines 56-77
CityNames == <<"New York", "Knoxville", "Birmingham", "Baltimore", "Bangor",
               "Cleveland", "Chicago", "Denver">>

\* the coordinate pairs of such tables: the corners of the unit square and a
\* point off it
Points == {<<la, lo>> : la \in 0..1, lo \in 0..1} \cup {<<0, 3>>}

\* a DataFrame as create_cities_dataframe builds it (lines 106-112): one row per
\* city, columns city, latitude, longitude
Table(n, coords) ==
    [r \in 1..n |-> [city |-> CityNames[r], latitude |-> coords[r][1],
                     longitude |-> coords[r][2]]]

TspTables == UNION {{Table(n, c) : c \in [1..n -> Points]} : n \in 1..MaxCities}

\* the corners of the unit square, in row order
SquareCorners == <<(<<0, 0>>), (<<0, 1>>), (<<1, 1>>), (<<1, 0>>)>>

\* the tables the driver runs use: one city (every tour has length 0), two
\* cities, four cities (tours of two different lengths)
DriverTables == {Table(1, SquareCorners), Table(2, SquareCorners), Table(4, SquareCorners)}

\* the number of a choice vector in the mixed-radix order whose least
\* significant digit is the first exchange (position n)
Rank(js, n) ==
    LET RECURSIVE R(_, _)
        R(k, w) == IF k < 2 THEN 0 ELSE (k - js[k]) * w + R(k - 1, w * k)
    IN  R(n, 1)

DriverChoices(n) == {js \in ChoiceVectors(n) : Rank(js, n) < MaxDraws}

\* what tsp(cdf) can return in a driver run, per table
DriverSamples == [t \in DriverTables |-> {tsp(t, js) : js \in DriverChoices(Len(t))}]

\* improvement_threshold values, as num/den: the default 0.1 (line 188) and 40.0
Thresholds == {<<1, 10>>, <<40, 1>>}

ThresholdValue(t) == FDiv(t[1], t[2])

\* (count, auto_stop, improvement_threshold) of a run: without auto_stop the
\* default threshold, as benchmark calls main (line 349)
RunConfigs ==
    {<<c, FALSE, <<1, 10>>>> : c \in {1, WarmUp + 1}}
    \cup {<<MaxCount, TRUE, t>> : t \in Thresholds}

RECURSIVE SeqsUpTo(_, _)
SeqsUpTo(S, n) ==
    IF n = 0 THEN {<<>>}
    ELSE LET shorter == SeqsUpTo(S, n - 1)
         IN  shorter \cup {Append(q, v) : q \in {t \in shorter : Len(t) = n - 1}, v \in S}

\* the histories of test_tsp.py (lines 47, 53, 58, 127, 132)
ScenarioB   == <<1000, 950, 900, 880, 870, 865, 863, 862, 861, 860>>
ScenarioC   == [k \in 1..10 |-> 1000]
ScenarioD   == [k \in 1..15 |-> IF k <= 10 THEN 10000 ELSE 5000]
ShortList   == <<1000, 950, 900>>
ExactWindow == <<1000, 950, 900, 880, 870>>
OneValue    == <<1000>>

Histories == SeqsUpTo((-1)..MaxVal, MaxLen)
             \cup {ScenarioB, ScenarioC, ScenarioD, ShortList, ExactWindow, OneValue}

Windows == (1..MaxWindow) \cup {5}

-----------------------------------------------------------------------------
(* main, src/tsp.py:188-284 *)

\* float('inf') of line 214; tour distances are never negative
Infinity == -1

\* distance < best_distance, line 227
LessThanBest(distance, best) == best = Infinity \/ distance < best

NotCalled   == [raised |-> FALSE, value |-> None, type |-> "pending", line |-> 0]
NoException == [type |-> "", line |-> 0]

\* a warm-up that ends one window early
WarmUpOverShort(k) == k >= ConvergenceWindow - 1
\* i >= 10, line 239
WarmUpOver(k) == k >= WarmUp


\* improvement is not None and abs(improvement) < improvement_threshold, line 241
StatisticalTrigger(imp, threshold) ==
    imp.value # None /\ FLess(FAbs(imp.value), ThresholdValue(threshold))

\* a plateau test that fires one iteration late
PlateauTriggerLate(n) == n > PlateauLimit
\* iterations_since_improvement >= 20, line 245
PlateauTrigger(n) == n >= PlateauLimit

\* the last position holding v
LastIndexOf(lst, v) ==
    CHOOSE k \in 1..Len(lst) : lst[k] = v /\ \A q \in (k + 1)..Len(lst) : lst[q] # v
\* lst.index(v): the first position holding v, line 252
ListIndex(lst, v) ==
    CHOOSE k \in 1..Len(lst) : lst[k] = v /\ \A q \in 1..(k - 1) : lst[q] # v

IdleAnalyze == an_list = <<>> /\ an_window = 0 /\ an_out = NotCalled /\ an_pc = "idle"
IdleTsp     == tsp_df = <<>> /\ tsp_out = <<0, <<>>>> /\ tsp_pc = "idle"
IdleMain ==
    /\ cdf = <<>> /\ count = 0 /\ auto_stop = FALSE /\ improvement_threshold = <<1, 10>>
    /\ pc = "idle" /\ i = 0 /\ distance_list = <<>> /\ city_list_list = <<>>
    /\ best_distance = Infinity /\ iterations_since_improvement = 0
    /\ improvement = NotCalled /\ message = "none" /\ exc = NoException
    /\ results = None

\* lines 198-215: main entered with a non-empty table and count >= 1
Init ==
    /\ cdf \in DriverTables
    /\ \E cfg \in RunConfigs :
          /\ count = cfg[1]
          /\ auto_stop = cfg[2]
          /\ improvement_threshold = cfg[3]
    /\ pc = "loop"
    /\ i = 0
    /\ distance_list = <<>>
    /\ city_list_list = <<>>
    /\ best_distance = Infinity
    /\ iterations_since_improvement = 0
    /\ improvement = NotCalled
    /\ message = "none"
    /\ exc = NoException
    /\ results = None
    /\ IdleAnalyze
    /\ IdleTsp

\* one pass of the body of `for i in range(count)`, lines 217-247
Iterate ==
    /\ pc = "loop"
    /\ \E sample \in DriverSamples[cdf] :                               \* 219
        LET distance  == sample[1]
            city_list == sample[2]
            dl        == Append(distance_list, distance)               \* 222
            improved  == LessThanBest(distance, best_distance)         \* 227
            isi       == IF improved THEN 0
                         ELSE iterations_since_improvement + 1         \* 229, 232
            checking  == auto_stop /\ WarmUpOver(i)                    \* 239
            imp       == IF checking
                         THEN analyze_convergence(dl, ConvergenceWindow)  \* 240
                         ELSE improvement
            outcome   == IF checking /\ imp.raised THEN "raise"
                         ELSE IF checking /\ StatisticalTrigger(imp, improvement_threshold)
                              THEN "statistical"                       \* 241-243
                         ELSE IF checking /\ PlateauTrigger(isi)
                              THEN "plateau"                           \* 245-247
                         ELSE IF i + 1 = count THEN "exhausted"
                         ELSE "continue"
        IN  /\ distance_list' = dl
            /\ city_list_list' = Append(city_list_list, city_list)     \* 224
            /\ best_distance' = IF improved THEN distance ELSE best_distance
            /\ iterations_since_improvement' = isi
            /\ improvement' = imp
            /\ i' = IF outcome = "continue" THEN i + 1 ELSE i
            /\ pc' = CASE outcome = "continue" -> "loop"
                       [] outcome = "raise"    -> "raised"
                       [] OTHER                -> "summary"
            /\ message' = IF outcome \in {"statistical", "plateau"} THEN outcome ELSE message
            /\ exc' = IF outcome = "raise" THEN [type |-> imp.type, line |-> imp.line]
                      ELSE exc
    /\ UNCHANGED <<cdf, count, auto_stop, improvement_threshold, results>>
    /\ UNCHANGED <<anVars, tspVars>>

\* lines 249-284: the summary and the returned dict. Line 264 divides by
\* max(distance_list). The wall-clock fields are left out.
Summary ==
    /\ pc = "summary"
    /\ LET shortest == ListMin(distance_list)
           longest  == ListMax(distance_list)
           shortest_distance_index == ListIndex(distance_list, shortest)   \* 252
       IN  IF longest = 0
           THEN /\ pc' = "raised"
                /\ exc' = [type |-> "ZeroDivisionError", line |-> 264]
                /\ UNCHANGED results
           ELSE /\ pc' = "done"
                /\ results' =
                     [simulations      |-> Len(distance_list),
                      best_distance    |-> shortest,
                      average_distance |-> FDiv(ListSum(distance_list), Len(distance_list)),
                      worst_distance   |-> longest,
                      best_route       |-> city_list_list[shortest_distance_index],
                      all_distances    |-> distance_list]
                /\ UNCHANGED exc
    /\ UNCHANGED <<cdf, count, auto_stop, improvement_threshold, i, distance_list,
                   city_list_list, best_distance, iterations_since_improvement,
                   improvement, message>>
    /\ UNCHANGED <<anVars, tspVars>>

Next == Iterate \/ Summary

Spec == Init /\ [][Next]_vars

-----------------------------------------------------------------------------
(* analyze_convergence on its own *)

InitAnalyze ==
    /\ IdleMain
    /\ IdleTsp
    /\ an_list \in Histories
    /\ an_window \in Windows
    /\ an_out = NotCalled
    /\ an_pc = "call"

AnalyzeCall ==
    /\ an_pc = "call"
    /\ an_out' = analyze_convergence(an_list, an_window)
    /\ an_pc' = "returned"
    /\ UNCHANGED <<an_list, an_window>>
    /\ UNCHANGED <<mainVars, tspVars>>

NextAnalyze == AnalyzeCall

SpecAnalyze == InitAnalyze /\ [][NextAnalyze]_vars

-----------------------------------------------------------------------------
(* tsp on its own, every outcome of the shuffle *)

InitTsp ==
    /\ IdleMain
    /\ IdleAnalyze
    /\ tsp_df \in TspTables
    /\ tsp_out = <<0, <<>>>>
    /\ tsp_pc = "call"

TspCall ==
    /\ tsp_pc = "call"
    /\ \E js \in ChoiceVectors(Len(tsp_df)) : tsp_out' = tsp(tsp_df, js)
    /\ tsp_pc' = "returned"
    /\ UNCHANGED tsp_df
    /\ UNCHANGED <<mainVars, anVars>>

NextTsp == TspCall

SpecTsp == InitTsp /\ [][NextTsp]_vars

-----------------------------------------------------------------------------
(* Properties of analyze_convergence, checked under SpecAnalyze *)

\* v is the least element of the non-empty list lst
IsMinOf(v, lst) ==
    /\ \E k \in 1..Len(lst) : lst[k] = v
    /\ \A k \in 1..Len(lst) : v <= lst[k]

\* v is the greatest element of the non-empty list lst
IsMaxOf(v, lst) ==
    /\ \E k \in 1..Len(lst) : lst[k] = v
    /\ \A k \in 1..Len(lst) : v >= lst[k]

\* the positions before the trailing window, and those of the trailing window
FrontPositions == 1..(Len(an_list) - an_window)
LastPositions  == (Len(an_list) - an_window + 1)..Len(an_list)

\* the next double away from zero
FAway(x) == FRound(x.s, x.e, x.m, TRUE)

\* x and y are at most two units in the last place apart
WithinTwoUlps(x, y) ==
    \/ x = y
    \/ y = FAway(x) \/ y = FAway(FAway(x))
    \/ x = FAway(y) \/ x = FAway(FAway(y))

\* the doubles 14.0, 50.0 and 1.1494252873563218 (0x1.2640bc52640bcp+0)
Double14       == [s |-> 1, e |-> -49, m |-> <<224, 0, 0, 0, 0, 0>>]
Double50       == [s |-> 1, e |-> -47, m |-> <<200, 0, 0, 0, 0, 0>>]
DoubleTenOf870 == [s |-> 1, e |-> -52, m |-> <<147, 64, 376, 329, 288, 188>>]

\* C1: analyze_convergence returns None, without raising, for every history
\* with len(distances) <= window, the case len(distances) == window included.
C1_NoSignalUpToWindow ==
    (an_pc = "returned" /\ Len(an_list) <= an_window) => an_out = Returned(None)

\* C2: for every history longer than the window whose minimum before the
\* trailing window is <= 0, analyze_convergence returns None: it neither raises
\* nor returns a number.
C2_NoSignalOnNonPositiveBaseline ==
    ( /\ an_pc = "returned"
      /\ Len(an_list) > an_window
      /\ \E k \in FrontPositions : an_list[k] <= 0 )
    => an_out = Returned(None)

\* what C3 states of a call on a history longer than the window whose elements
\* before the trailing window are all positive; scenarioB is the value stated
\* for the history 1000, 950, .., 860 with window 5
C3_Statement(scenarioB) ==
    ( /\ an_pc = "returned"
      /\ Len(an_list) > an_window
      /\ \A k \in FrontPositions : an_list[k] > 0 )
    =>
    /\ ~an_out.raised
    /\ an_out.value # None
    /\ \E kp \in FrontPositions, kr \in LastPositions :
          LET previous_best == an_list[kp]
              recent_best   == an_list[kr]
          IN  /\ \A k \in FrontPositions : previous_best <= an_list[k]
              /\ \A k \in LastPositions : recent_best <= an_list[k]
              \* the division, then the multiplication, each rounded once
              /\ an_out.value = FMulInt(FDiv(previous_best - recent_best, previous_best), 100)
              \* within rounding of the real quotient 100 * (p - r) / p
              /\ WithinTwoUlps(an_out.value,
                               FDiv(100 * (previous_best - recent_best), previous_best))
              /\ an_out.value.s = Sign(previous_best - recent_best)
    /\ (\A k \in 1..(Len(an_list) - 1) : an_list[k] > an_list[k + 1]) => an_out.value.s = 1
    /\ (\A k \in 1..Len(an_list) : an_list[k] = an_list[1]) => an_out.value = FZero
    /\ (an_list = ScenarioB /\ an_window = 5) => an_out.value = scenarioB
    /\ (an_list = ScenarioD /\ an_window = 5) => an_out.value = Double50

\* C3 as stated: the result is (previous_best - recent_best) / previous_best *
\* 100 over the minimum of the trailing window and the minimum of ALL earlier
\* elements; positive on a strictly decreasing history, 0 on a constant one,
\* 50 on 10000 x 10 + 5000 x 5, and 14 on 1000, 950, .., 860.
C3_ImprovementFormulaExact14 == C3_Statement(Double14)

\* C3 amended: as stated, except that 1000, 950, .., 860 with window 5 gives
\* 1.1494252873563218 = (870 - 860) / 870 * 100: the minimum of the five
\* elements before the trailing window is 870, not 1000.
C3_ImprovementFormula == C3_Statement(DoubleTenOf870)

\* C3 witness: the call on 1000, 950, .., 860 with window 5 has returned a number
C3_Witness ==
    /\ an_pc = "returned"
    /\ an_list = ScenarioB
    /\ an_window = 5
    /\ ~an_out.raised
    /\ an_out.value # None

-----------------------------------------------------------------------------
(* Properties of tsp, checked under SpecTsp *)

\* lst holds every city of the table df exactly once and nothing else
IsPermutationOf(lst, df) ==
    /\ Len(lst) = Len(df)
    /\ \A r \in 1..Len(df) : Cardinality({k \in 1..Len(lst) : lst[k] = df[r].city}) = 1

\* the coordinate pair the table gives the city called name
PointOf(df, name) ==
    LET row == CHOOSE r \in 1..Len(df) : df[r].city = name
    IN  <<df[row].latitude, df[row].longitude>>

\* the sum of f over the finite set S of positions
RECURSIVE SumOver(_, _)
SumOver(S, f) ==
    IF S = {} THEN 0
    ELSE LET k == CHOOSE x \in S : TRUE IN f[k] + SumOver(S \ {k}, f)

\* the length of the closed cycle through lst: one edge per position, the last
\* one back to the first city
CycleLength(df, lst) ==
    LET n == Len(lst)
        edge == [k \in 1..n |->
                    geodesic_miles(PointOf(df, lst[k]), PointOf(df, lst[(k % n) + 1]))]
    IN  SumOver(1..n, edge)

Reversed(lst) == [k \in 1..Len(lst) |-> lst[Len(lst) + 1 - k]]

\* C6: every tour tsp returns is a permutation of the full city table (same
\* length, every city exactly once), and sampling leaves the table unchanged.
C6_PermutationInvariant ==
    /\ [](tsp_pc = "returned" => IsPermutationOf(tsp_out[2], tsp_df))
    /\ [][tsp_df' = tsp_df]_vars

\* C6 witness: tsp has returned a tour of a four-city table in another order
\* than the table's
C6_Witness ==
    /\ tsp_pc = "returned"
    /\ Len(tsp_df) = 4
    /\ tsp_out[2] # CityColumn(tsp_df)
    /\ IsPermutationOf(tsp_out[2], tsp_df)

-----------------------------------------------------------------------------
(* Properties of main, checked under Spec *)

\* the 1-based position of the first iteration that attained the minimum
FirstBest ==
    LET least == CHOOSE v \in {distance_list[k] : k \in 1..Len(distance_list)} :
                    \A q \in 1..Len(distance_list) : v <= distance_list[q]
    IN  CHOOSE k \in 1..Len(distance_list) :
            distance_list[k] = least /\ \A q \in 1..(k - 1) : distance_list[q] # least

\* C4: in every run of main that completes, best_distance is min(all_distances),
\* worst_distance is max(all_distances), and best_route is the tour of the
\* first iteration whose distance attains the minimum.
C4_BestTourFirstOccurrence ==
    pc = "done" =>
        /\ results.all_distances = distance_list
        /\ IsMinOf(results.best_distance, distance_list)
        /\ IsMaxOf(results.worst_distance, distance_list)
        /\ results.best_route = city_list_list[FirstBest]

\* C4 witness: a completed run in which two iterations with different tours tie
\* for the minimum
C4_Witness ==
    /\ pc = "done"
    /\ \E j, k \in 1..Len(distance_list) :
          /\ j < k
          /\ distance_list[j] = results.best_distance
          /\ distance_list[k] = results.best_distance
          /\ city_list_list[j] # city_list_list[k]

\* C5: with auto_stop, iterations_since_improvement never exceeds 20 and no
\* iteration starts once it is 20: when the running best was last improved at
\* iteration k (0-based), the loop executes no iteration after k + 20, and a
\* plateau stop happens exactly at iteration k + 20.
C5_PlateauStop ==
    auto_stop =>
        /\ iterations_since_improvement <= PlateauLimit
        /\ pc = "loop" => iterations_since_improvement < PlateauLimit
        /\ distance_list # <<>> => Len(distance_list) <= FirstBest + PlateauLimit
        /\ message = "plateau" =>
              /\ iterations_since_improvement = PlateauLimit
              /\ Len(distance_list) = FirstBest + PlateauLimit

\* C5 witness: a plateau stop before count iterations were run
C5_Witness ==
    /\ auto_stop
    /\ message = "plateau"
    /\ pc # "loop"
    /\ Len(distance_list) < count

\* the statistical trigger of lines 240-241 on the recorded history
StatisticalTriggerHolds ==
    LET a == analyze_convergence(distance_list, ConvergenceWindow)
    IN  ~a.raised /\ StatisticalTrigger(a, improvement_threshold)

\* the early-stop condition after recording the last iteration (0-based index
\* Len(distance_list) - 1)
StopCondition ==
    /\ auto_stop
    /\ Len(distance_list) - 1 >= WarmUp
    /\ (StatisticalTriggerHolds \/ iterations_since_improvement >= PlateauLimit)

\* C8: main leaves the loop before iteration index count - 1 if and only if
\* auto_stop is enabled, the index i is >= 10 and, after recording iteration i,
\* |analyze_convergence(history, 5)| < improvement_threshold or
\* iterations_since_improvement >= 20.
C8_EarlyStopIff ==
    distance_list # <<>> =>
        /\ (pc # "loop" /\ Len(distance_list) < count) => StopCondition
        /\ pc = "loop" => ~StopCondition

\* C9: the driver never enters an error state: one distance and one tour per
\* executed iteration, at most count iterations (exactly count without
\* auto_stop), and a result whose 'simulations' is the history length, also for
\* tables whose tour distances are all 0.
C9_NoErrorState ==
    /\ pc # "raised"
    /\ Len(distance_list) = Len(city_list_list)
    /\ Len(distance_list) <= count
    /\ (pc \in {"summary", "done"} /\ ~auto_stop) => Len(distance_list) = count
    /\ pc = "done" => results.simulations = Len(distance_list)

\* C10: main calls analyze_convergence only on a history of length >= 11, longer
\* than the window 5, so the call never returns None and its slice of earlier
\* history is never empty; and the running best_distance is min(history) while
\* iterations_since_improvement counts the iterations executed after the first
\* one that attained that minimum.
C10_DriverInvariant ==
    /\ improvement # NotCalled =>
          /\ auto_stop
          /\ Len(distance_list) >= WarmUp + 1
          /\ Len(distance_list) > ConvergenceWindow
          /\ improvement # Returned(None)
          /\ ~(improvement.raised /\ improvement.type = "ValueError")
    /\ distance_list = <<>> =>
          best_distance = Infinity /\ iterations_since_improvement = 0
    /\ distance_list # <<>> =>
          /\ IsMinOf(best_distance, distance_list)
          /\ iterations_since_improvement = Len(distance_list) - FirstBest

\* C10 witness: the analyzer has returned a number to main some iterations after
\* the last improvement
C10_Witness ==
    /\ improvement # NotCalled
    /\ ~improvement.raised
    /\ improvement.value # None
    /\ iterations_since_improvement > 0
    /\ Len(distance_list) > WarmUp + 1

====
